---- MODULE Spec2Model ----
(***************************************************************************)
(* Model of the chess engine in src/chess/src: Board (board.py) and        *)
(* ChessStub (chess.py).  A game object is the record                      *)
(* [board, turn, captured_pieces]; every method is an operator that takes  *)
(* the object and returns the object after the call together with the      *)
(* exception message it raised ("" when it returned normally) and its      *)
(* return value.                                                           *)
(***************************************************************************)
EXTENDS Integers, Sequences, FiniteSets, TLC

\* ------------------------------------------------------------------ bounds
\* Successful play_move calls since construction or the last restart.
MaxPly == 2
\* Pieces a caller places on the empty board with add_piece.
MaxPieces == 3

\* ------------------------------------------------------- pieces (board.py)
\* Color.W and Color.B (enum values)
W == 0
B == 1

PieceTypes == {"P", "N", "B", "R", "Q", "K"}

Piece(color, ptype) == [color |-> color, ptype |-> ptype]

\* Python's None in a square or as a return value
None == [color |-> -1, ptype |-> "None"]

Pieces == {Piece(c, t) : c \in {W, B}, t \in PieceTypes}

BoardSize == 8

Squares == (0 .. BoardSize - 1) \X (0 .. BoardSize - 1)

first_rank_setup == <<"R", "N", "B", "Q", "K", "B", "N", "R">>

\* ------------------------------------------------------------ Board (board.py)
\* Board.__init__: an 8x8 grid of None
EmptyBoard == [pos \in Squares |-> None]

is_valid_position(pos) ==
    /\ 0 <= pos[1] /\ pos[1] <= BoardSize - 1
    /\ 0 <= pos[2] /\ pos[2] <= BoardSize - 1

\* get_piece on a position already known to be valid
get_piece(b, pos) == b[pos]

\* Board.is_empty is called by chess.py but not defined in board.py
is_empty(b, pos) == b[pos] = None

\* Board.pieces_on_board is read by chess.py but not defined in board.py:
\* the occupied squares with their occupants
pieces_on_board(b) ==
    [pos \in {p \in Squares : b[p] # None} |-> b[pos]]

\* Result of a Board method: the grid after the call, the message of the
\* ValueError it raised ("" if none) and the value it returned.
BoardResult(b, raised, ret) == [board |-> b, raised |-> raised, ret |-> ret]

add_piece(b, piece, pos) ==
    IF ~is_valid_position(pos)
    THEN BoardResult(b, "Invalid position", None)
    ELSE IF get_piece(b, pos) = None
         THEN BoardResult([b EXCEPT ![pos] = piece], "", None)
         ELSE BoardResult(b, "Position already occupied", None)

remove_piece(b, pos) ==
    IF ~is_valid_position(pos)
    THEN BoardResult(b, "Invalid position", None)
    ELSE BoardResult([b EXCEPT ![pos] = None], "", b[pos])

\* A variant that drops the moved piece instead of placing it on pos2.
move_piece_dropping(b, pos1, pos2) ==
    IF ~is_valid_position(pos1)
    THEN BoardResult(b, "Invalid position", None)
    ELSE IF get_piece(b, pos1) = None
    THEN BoardResult(b, "Invalid move", None)
    ELSE IF ~is_valid_position(pos2)
    THEN BoardResult(b, "Invalid position", None)
    ELSE IF get_piece(b, pos2) # None
    THEN BoardResult(b, "Invalid move", None)
    ELSE BoardResult([b EXCEPT ![pos1] = None], "", None)

\* Board.move_piece.  The first test reads pos1, and reads pos2 only when
\* pos1 is occupied (Python's `or`); each read raises on an invalid position.
move_piece(b, pos1, pos2) ==
    IF ~is_valid_position(pos1)
    THEN BoardResult(b, "Invalid position", None)
    ELSE IF get_piece(b, pos1) = None
    THEN BoardResult(b, "Invalid move", None)
    ELSE IF ~is_valid_position(pos2)
    THEN BoardResult(b, "Invalid position", None)
    ELSE IF get_piece(b, pos2) # None
    THEN BoardResult(b, "Invalid move", None)
    ELSE IF pos1 = pos2
    THEN BoardResult(b, "Can't move to same square", None)
    ELSE LET removed == remove_piece(b, pos1)
         IN  add_piece(removed.board, removed.ret, pos2)

\* Board.capture_piece
capture_piece(b, pos1, pos2) ==
    IF ~is_valid_position(pos1)
    THEN BoardResult(b, "Invalid position", None)
    ELSE IF get_piece(b, pos1) = None
    THEN BoardResult(b, "Invalid Move", None)
    ELSE IF ~is_valid_position(pos2)
    THEN BoardResult(b, "Invalid position", None)
    ELSE IF get_piece(b, pos2) = None
    THEN BoardResult(b, "Invalid Move", None)
    ELSE IF pos1 = pos2
    THEN BoardResult(b, "Can't capture on same square", None)
    ELSE LET removed == remove_piece(b, pos2)
             moved == move_piece(removed.board, pos1, pos2)
         IN  BoardResult(moved.board, moved.raised,
                         IF moved.raised = "" THEN removed.ret ELSE None)

\* Board.clear
clear(b) == [pos \in Squares |-> None]

\* The loop of Board.set_up (and of ChessStub.restart, which repeats it)
\* over the files i = 0 .. 7
RECURSIVE set_up_loop(_, _)
set_up_loop(b, i) ==
    IF i > BoardSize - 1
    THEN b
    ELSE LET b0 == add_piece(b, Piece(B, first_rank_setup[i + 1]), <<0, i>>).board
             b1 == add_piece(b0, Piece(B, "P"), <<1, i>>).board
             b6 == add_piece(b1, Piece(W, "P"), <<6, i>>).board
             b7 == add_piece(b6, Piece(W, first_rank_setup[i + 1]), <<7, i>>).board
         IN  set_up_loop(b7, i + 1)

\* Board.set_up
set_up(b) == set_up_loop(clear(b), 0)

\* ------------------------------------------------------ ChessStub (chess.py)
\* A ChessStub object.  captured_pieces is the dict {"W": [], "B": []}.
Game(b, t, cap) == [board |-> b, turn |-> t, captured_pieces |-> cap]

NoCaptures == [W |-> <<>>, B |-> <<>>]

\* A constructor that starts with Black to move.
NewGameBlackFirst == Game(EmptyBoard, 1, NoCaptures)

\* ChessStub.__init__
NewGame == Game(EmptyBoard, 0, NoCaptures)

\* Result of a ChessStub method: the object after the call, the message of
\* the exception raised ("" if none), and the returned list / bool.
GameResult(g, raised, moves, flag) ==
    [self |-> g, raised |-> raised, moves |-> moves, flag |-> flag]

\* ChessStub.next_turn
next_turn(g) == [g EXCEPT !.turn = IF g.turn = 0 THEN 1 ELSE 0]

\* numpy.sign
Sign(x) == IF x > 0 THEN 1 ELSE IF x < 0 THEN -1 ELSE 0

\* The while loop of _long_moves: (i, j) is the current offset from pos.
RECURSIVE long_moves_loop(_, _, _, _, _, _)
long_moves_loop(b, color, pos, i, j, result) ==
    LET move == <<pos[1] + i, pos[2] + j>>
    IN  IF is_valid_position(move)
        THEN IF get_piece(b, move) # None
             THEN IF get_piece(b, move).color = color
                  THEN result
                  ELSE Append(result, move)
             ELSE long_moves_loop(b, color, pos, i + Sign(i), j + Sign(j),
                                  Append(result, move))
        ELSE result

\* A _long_moves that takes the other side's colour for the mover's.
long_moves_other_colour(b, pos, direction) ==
    long_moves_loop(b, 1 - get_piece(b, pos).color, pos,
                    direction[1], direction[2], <<>>)

\* ChessStub._long_moves, called with a non-zero direction on an occupied pos
long_moves(b, pos, direction) ==
    long_moves_loop(b, get_piece(b, pos).color, pos,
                    direction[1], direction[2], <<>>)

\* result.extend(self._long_moves(pos, direction)) for each direction in turn
RECURSIVE extend_long_moves(_, _, _)
extend_long_moves(b, pos, directions) ==
    IF directions = <<>>
    THEN <<>>
    ELSE long_moves(b, pos, Head(directions))
            \o extend_long_moves(b, pos, Tail(directions))

BishopDirections == << <<-1,-1>>, <<-1,1>>, <<1,-1>>, <<1,1>> >>
RookDirections == << <<-1,0>>, <<0,-1>>, <<0,1>>, <<1,0>> >>
QueenDirections == BishopDirections \o RookDirections
KnightOffsets == << <<-2,-1>>, <<-2,1>>, <<-1,-2>>, <<-1,2>>,
                    <<1,-2>>, <<1,2>>, <<2,-1>>, <<2,1>> >>
KingOffsets == << <<-1,-1>>, <<-1,0>>, <<-1,1>>, <<0,-1>>,
                  <<0,1>>, <<1,-1>>, <<1,0>>, <<1,1>> >>

\* Knight and king loops that keep squares held by the mover's own pieces.
offset_moves_onto_own(b, pos, piece, offsets) ==
    LET targets == [k \in 1 .. Len(offsets) |->
                      <<pos[1] + offsets[k][1], pos[2] + offsets[k][2]>>]
        Keep(move) == is_valid_position(move)
    IN  SelectSeq(targets, Keep)

\* The knight and king loops: each offset square that is on the board and
\* not occupied by a piece of the mover's colour, in list order.
offset_moves(b, pos, piece, offsets) ==
    LET targets == [k \in 1 .. Len(offsets) |->
                      <<pos[1] + offsets[k][1], pos[2] + offsets[k][2]>>]
        Keep(move) == /\ is_valid_position(move)
                      /\ ~(get_piece(b, move) # None
                           /\ get_piece(b, move).color = piece.color)
    IN  SelectSeq(targets, Keep)

\* A pawn branch whose double step does not depend on the single step.
pawn_moves_jump(b, pos, piece) ==
    LET r == pos[1]
        f == pos[2]
        op(x, y) == IF piece.color = W THEN x - y ELSE x + y
        start_rank == IF piece.color = W THEN 6 ELSE 1
        single_move == <<op(r, 1), f>>
        double_move == <<op(r, 2), f>>
        forward ==
            (IF is_valid_position(single_move) /\ is_empty(b, single_move)
             THEN <<single_move>> ELSE <<>>) \o
            (IF /\ r = start_rank
                /\ is_valid_position(double_move)
                /\ is_empty(b, double_move)
             THEN <<double_move>> ELSE <<>>)
        captures == << <<op(r, 1), f - 1>>, <<op(r, 1), f + 1>> >>
        Takes(capture) == /\ is_valid_position(capture)
                          /\ get_piece(b, capture) # None
                          /\ get_piece(b, capture).color # piece.color
    IN  forward \o SelectSeq(captures, Takes)

\* The pawn branch of list_legal_moves
pawn_moves(b, pos, piece) ==
    LET r == pos[1]
        f == pos[2]
        op(x, y) == IF piece.color = W THEN x - y ELSE x + y
        start_rank == IF piece.color = W THEN 6 ELSE 1
        single_move == <<op(r, 1), f>>
        double_move == <<op(r, 2), f>>
        forward ==
            IF is_valid_position(single_move) /\ is_empty(b, single_move)
            THEN <<single_move>> \o
                 (IF /\ r = start_rank
                     /\ is_valid_position(double_move)
                     /\ is_empty(b, double_move)
                  THEN <<double_move>> ELSE <<>>)
            ELSE <<>>
        captures == << <<op(r, 1), f - 1>>, <<op(r, 1), f + 1>> >>
        Takes(capture) == /\ is_valid_position(capture)
                          /\ get_piece(b, capture) # None
                          /\ get_piece(b, capture).color # piece.color
    IN  forward \o SelectSeq(captures, Takes)

\* list_legal_moves up to line 186: the list `result` for an occupied pos
piece_moves(b, pos) ==
    LET piece == get_piece(b, pos)
    IN  CASE piece.ptype = "P" -> pawn_moves(b, pos, piece)
          [] piece.ptype = "N" -> offset_moves(b, pos, piece, KnightOffsets)
          [] piece.ptype = "B" -> extend_long_moves(b, pos, BishopDirections)
          [] piece.ptype = "R" -> extend_long_moves(b, pos, RookDirections)
          [] piece.ptype = "Q" -> extend_long_moves(b, pos, QueenDirections)
          [] piece.ptype = "K" -> offset_moves(b, pos, piece, KingOffsets)

\* list_legal_moves(pos, simulated=True): no exception on a valid position
simulated_moves(g, pos) ==
    IF get_piece(g.board, pos) = None THEN <<>> ELSE piece_moves(g.board, pos)

\* An is_in_check that scans the pieces of both colours.
is_in_check_any_colour(g) ==
    LET on_board == pieces_on_board(g.board)
    IN  \E pos \in DOMAIN on_board :
          LET moves == simulated_moves(g, pos)
          IN  \E k \in 1 .. Len(moves) :
                LET target == get_piece(g.board, moves[k])
                IN  target # None /\ target.ptype = "K"

\* ChessStub.is_in_check
is_in_check(g) ==
    LET on_board == pieces_on_board(g.board)
    IN  \E pos \in DOMAIN on_board :
          /\ on_board[pos].color # g.turn
          /\ LET moves == simulated_moves(g, pos)
             IN  \E k \in 1 .. Len(moves) :
                   LET target == get_piece(g.board, moves[k])
                   IN  target # None /\ target.ptype = "K"

\* A play_move that moves the piece and forgets to pass the turn.
play_move_no_flip(g, pos1, pos2) ==
    LET moved == move_piece(g.board, pos1, pos2)
    IN  IF moved.raised # ""
        THEN GameResult(g, moved.raised, <<>>, FALSE)
        ELSE GameResult([g EXCEPT !.board = moved.board], "", <<>>, FALSE)

\* A play_move that passes the turn before it moves the piece.
play_move_flip_first(g, pos1, pos2) ==
    LET flipped == next_turn(g)
        moved == move_piece(flipped.board, pos1, pos2)
    IN  IF moved.raised # ""
        THEN GameResult(flipped, moved.raised, <<>>, FALSE)
        ELSE GameResult([flipped EXCEPT !.board = moved.board], "", <<>>, FALSE)

\* ChessStub.play_move
play_move(g, pos1, pos2) ==
    LET moved == move_piece(g.board, pos1, pos2)
    IN  IF moved.raised # ""
        THEN GameResult(g, moved.raised, <<>>, FALSE)
        ELSE GameResult(next_turn([g EXCEPT !.board = moved.board]),
                        "", <<>>, FALSE)

\* copy.deepcopy of a ChessStub: a value that shares nothing with g
deepcopy(g) == g

\* A _would_be_check without the second change of turn: the copy is asked
\* whether the opponent is in check.
would_be_check_no_flip(g, pos1, pos2) ==
    LET game_copy == deepcopy(g)
        played == play_move(game_copy, pos1, pos2)
    IN  IF played.raised # ""
        THEN GameResult(g, played.raised, <<>>, FALSE)
        ELSE GameResult(g, "", <<>>, is_in_check(played.self))

\* A variant of _would_be_check that copies the object but shares its Board
\* (copy.copy): the move played on the copy shows on the live board.
would_be_check_shallow(g, pos1, pos2) ==
    LET played == play_move(g, pos1, pos2)
        live == [g EXCEPT !.board = played.self.board]
    IN  IF played.raised # ""
        THEN GameResult(live, played.raised, <<>>, FALSE)
        ELSE GameResult(live, "", <<>>, is_in_check(next_turn(played.self)))

\* ChessStub._would_be_check: self is left as it was, all changes are made
\* to game_copy
would_be_check(g, pos1, pos2) ==
    LET game_copy == deepcopy(g)
        played == play_move(game_copy, pos1, pos2)
    IN  IF played.raised # ""
        THEN GameResult(g, played.raised, <<>>, FALSE)
        ELSE GameResult(g, "", <<>>, is_in_check(next_turn(played.self)))

\* The list comprehension of line 191, one candidate at a time: the first
\* exception ends it.
RECURSIVE filter_moves(_, _, _, _)
filter_moves(g, pos, result, kept) ==
    IF result = <<>>
    THEN GameResult(g, "", kept, FALSE)
    ELSE LET checked == would_be_check(g, pos, Head(result))
         IN  IF checked.raised # ""
             THEN GameResult(checked.self, checked.raised, <<>>, FALSE)
             ELSE filter_moves(checked.self, pos, Tail(result),
                               IF checked.flag THEN kept
                               ELSE Append(kept, Head(result)))

\* A list_legal_moves whose ownership test ignores `simulated`.
list_legal_moves_owner_only(g, pos, simulated) ==
    IF ~is_valid_position(pos)
    THEN GameResult(g, "Game Error: invalid position", <<>>, FALSE)
    ELSE IF get_piece(g.board, pos) = None
    THEN GameResult(g, "", <<>>, FALSE)
    ELSE IF get_piece(g.board, pos).color # g.turn
    THEN GameResult(g, "", <<>>, FALSE)
    ELSE IF simulated
    THEN GameResult(g, "", piece_moves(g.board, pos), FALSE)
    ELSE filter_moves(g, pos, piece_moves(g.board, pos), <<>>)

\* ChessStub.list_legal_moves
list_legal_moves(g, pos, simulated) ==
    IF ~is_valid_position(pos)
    THEN GameResult(g, "Game Error: invalid position", <<>>, FALSE)
    ELSE IF get_piece(g.board, pos) = None
    THEN GameResult(g, "", <<>>, FALSE)
    ELSE IF ~simulated /\ get_piece(g.board, pos).color # g.turn
    THEN GameResult(g, "", <<>>, FALSE)
    ELSE IF simulated
    THEN GameResult(g, "", piece_moves(g.board, pos), FALSE)
    ELSE filter_moves(g, pos, piece_moves(g.board, pos), <<>>)

\* The loop of ChessStub.restart over the files i = 0 .. 7
RECURSIVE restart_loop(_, _)
restart_loop(b, i) ==
    IF i > BoardSize - 1
    THEN b
    ELSE LET b0 == add_piece(b, Piece(B, first_rank_setup[i + 1]), <<0, i>>).board
             b1 == add_piece(b0, Piece(B, "P"), <<1, i>>).board
             b6 == add_piece(b1, Piece(W, "P"), <<6, i>>).board
             b7 == add_piece(b6, Piece(W, first_rank_setup[i + 1]), <<7, i>>).board
         IN  restart_loop(b7, i + 1)

\* A restart that leaves the turn as it is.
restart_keep_turn(g) == Game(restart_loop(clear(g.board), 0), g.turn, NoCaptures)

\* ChessStub.restart
restart(g) == Game(restart_loop(clear(g.board), 0), 0, NoCaptures)

\* ------------------------------------------------------------ state machine
\* board, turn, captured_pieces: the fields of the live ChessStub object.
\* last: the most recent call, its arguments and its outcome.
\* n: successful play_move calls since construction or the last restart.
\* stack: the frames of the call in progress, outermost first; empty between
\* calls.
VARIABLES board, turn, captured_pieces, last, n, stack

vars == <<board, turn, captured_pieces, last, n, stack>>

\* The live object
self == Game(board, turn, captured_pieces)

SetSelf(g) ==
    /\ board' = g.board
    /\ turn' = g.turn
    /\ captured_pieces' = g.captured_pieces

NoPos == <<-1, -1>>

Call(op, pos1, pos2, piece, raised, moves, flag, ret) ==
    [op |-> op, pos1 |-> pos1, pos2 |-> pos2, piece |-> piece,
     raised |-> raised, moves |-> moves, flag |-> flag, ret |-> ret]

\* Squares by name (file letter, 8 - rank index), and a position off the board
a1 == <<7, 0>>
d1 == <<7, 3>>
e1 == <<7, 4>>
d2 == <<6, 3>>
e2 == <<6, 4>>
e4 == <<4, 4>>
d5 == <<3, 3>>
d7 == <<1, 3>>
e8 == <<0, 4>>
h8 == <<0, 7>>
OffBoard == <<8, 4>>

\* What callers place on the empty board
Placements ==
    { <<Piece(W, "K"), e1>>, <<Piece(B, "Q"), e8>>, <<Piece(W, "N"), e2>>,
      <<Piece(B, "P"), d2>>, <<Piece(W, "R"), a1>>, <<Piece(B, "K"), h8>> }

\* The (from, to) pairs callers move
MovePairs ==
    { <<e1, d1>>, <<d1, e1>>, <<e8, e4>>, <<e2, e4>>, <<d7, d5>>, <<e4, d5>>,
      <<e1, e8>>, <<e1, e1>>, <<e4, e1>>, <<OffBoard, e1>>, <<e1, OffBoard>> }

\* The (from, to) pairs callers hand to the Board's own methods
BoardPairs ==
    { <<e1, d1>>, <<d1, e1>>, <<e1, e8>>, <<e1, e1>>, <<e4, e4>>,
      <<e4, e1>>, <<OffBoard, e1>>, <<e1, OffBoard>> }

\* The positions callers query
Queries == {e1, e2, e4, e8, a1, d2, OffBoard}

Init ==
    /\ board = NewGame.board
    /\ turn = NewGame.turn
    /\ captured_pieces = NewGame.captured_pieces
    /\ last = Call("__init__", NoPos, NoPos, None, "", <<>>, FALSE, None)
    /\ n = 0
    /\ stack = <<>>

\* Callers set a position up before they play on it.
SettingUp == last.op \in {"__init__", "add_piece"}

\* game.board.add_piece(piece, pos)
AddPiece(piece, pos) ==
    /\ SettingUp
    /\ Cardinality({p \in Squares : board[p] # None}) < MaxPieces
    /\ LET r == add_piece(board, piece, pos)
       IN  /\ board' = r.board
           /\ last' = Call("add_piece", pos, NoPos, piece, r.raised, <<>>,
                           FALSE, r.ret)
    /\ UNCHANGED <<turn, captured_pieces, n>>
    /\ UNCHANGED stack

\* game.restart()
Restart ==
    /\ SetSelf(restart(self))
    /\ last' = Call("restart", NoPos, NoPos, None, "", <<>>, FALSE, None)
    /\ n' = 0
    /\ UNCHANGED stack

\* game.play_move(pos1, pos2)
PlayMove(pos1, pos2) ==
    /\ n < MaxPly
    /\ LET r == play_move(self, pos1, pos2)
       IN  /\ SetSelf(r.self)
           /\ last' = Call("play_move", pos1, pos2, None, r.raised, <<>>,
                           FALSE, None)
           /\ n' = IF r.raised = "" THEN n + 1 ELSE n
    /\ UNCHANGED stack

\* game.list_legal_moves(pos)
ListLegalMoves(pos) ==
    /\ LET r == list_legal_moves(self, pos, FALSE)
       IN  /\ SetSelf(r.self)
           /\ last' = Call("list_legal_moves", pos, NoPos, None, r.raised,
                           r.moves, FALSE, None)
    /\ UNCHANGED n
    /\ UNCHANGED stack

\* game.is_in_check
IsInCheck ==
    /\ last' = Call("is_in_check", NoPos, NoPos, None, "", <<>>,
                    is_in_check(self), None)
    /\ UNCHANGED <<board, turn, captured_pieces, n>>
    /\ UNCHANGED stack

\* game.board.move_piece(pos1, pos2)
MovePiece(pos1, pos2) ==
    /\ LET r == move_piece(board, pos1, pos2)
       IN  /\ board' = r.board
           /\ last' = Call("move_piece", pos1, pos2, None, r.raised, <<>>,
                           FALSE, r.ret)
    /\ UNCHANGED <<turn, captured_pieces, n>>
    /\ UNCHANGED stack

\* game.board.capture_piece(pos1, pos2)
CapturePiece(pos1, pos2) ==
    /\ LET r == capture_piece(board, pos1, pos2)
       IN  /\ board' = r.board
           /\ last' = Call("capture_piece", pos1, pos2, None, r.raised, <<>>,
                           FALSE, r.ret)
    /\ UNCHANGED <<turn, captured_pieces, n>>
    /\ UNCHANGED stack

\* game.board.set_up()
SetUp ==
    /\ board' = set_up(board)
    /\ last' = Call("set_up", NoPos, NoPos, None, "", <<>>, FALSE, None)
    /\ UNCHANGED <<turn, captured_pieces, n>>
    /\ UNCHANGED stack

Next ==
    \/ \E pl \in Placements : AddPiece(pl[1], pl[2])
    \/ Restart
    \/ \E mv \in MovePairs : PlayMove(mv[1], mv[2])
    \/ \E pos \in Queries : ListLegalMoves(pos)
    \/ IsInCheck

Spec == Init /\ [][Next]_vars

\* The Board on its own: a caller that places pieces and then moves them
\* through the Board's methods.
NextBoard ==
    \/ \E pl \in Placements : AddPiece(pl[1], pl[2])
    \/ \E mv \in BoardPairs : MovePiece(mv[1], mv[2])
    \/ \E mv \in BoardPairs : CapturePiece(mv[1], mv[2])
    \/ SetUp

SpecBoard == Init /\ [][NextBoard]_vars

\* ------------------------------------------------------------------ claims
Range(seq) == {seq[k] : k \in 1 .. Len(seq)}

PieceCount(b, color) ==
    Cardinality({pos \in Squares : b[pos] # None /\ b[pos].color = color})

\* The opening array as the specification words it
BackRank == <<"R", "N", "B", "Q", "K", "B", "N", "R">>

OpeningArray ==
    [pos \in Squares |->
        CASE pos[1] = 0 -> Piece(B, BackRank[pos[2] + 1])
          [] pos[1] = 1 -> Piece(B, "P")
          [] pos[1] = 6 -> Piece(W, "P")
          [] pos[1] = 7 -> Piece(W, BackRank[pos[2] + 1])
          [] OTHER -> None]

C6_InCheckIffKingAttacked ==
    last.op = "is_in_check" =>
        last.flag =
            (\E pos \in Squares :
                /\ board[pos] # None
                /\ board[pos].color = 1 - turn
                /\ \E d \in Range(list_legal_moves(self, pos, TRUE).moves) :
                      board[d] = Piece(turn, "K"))

C6_Witness ==
    /\ last.op = "is_in_check"
    /\ last.flag
    /\ board[e1] = Piece(W, "K")
    /\ turn = 0

\* C7: with only a White king on e1 and a Black queen on e8 and White to
\* move, is_in_check is true and list_legal_moves(e1) holds no square of the
\* e-file (file 4), e2 in particular.
KingAndQueen ==
    /\ board = [EmptyBoard EXCEPT ![<<7, 4>>] = Piece(W, "K"),
                                  ![<<0, 4>>] = Piece(B, "Q")]
    /\ turn = 0

C7_KingQueenScenario ==
    KingAndQueen =>
        /\ is_in_check(self)
        /\ last.op = "is_in_check" => last.flag
        /\ (last.op = "list_legal_moves" /\ last.pos1 = <<7, 4>>) =>
              /\ last.raised = ""
              /\ <<6, 4>> \notin Range(last.moves)
              /\ \A move \in Range(last.moves) : move[2] # 4

C7_Witness ==
    /\ KingAndQueen
    /\ last.op = "list_legal_moves"
    /\ last.pos1 = <<7, 4>>
    /\ Range(last.moves) = {<<7, 3>>, <<7, 5>>, <<6, 3>>, <<6, 5>>}

\* C2: a call of list_legal_moves leaves the live game as it was: all 64
\* squares, the turn and both ledgers.
C2_ListLeavesGameUnchanged ==
    [][last'.op = "list_legal_moves" =>
          /\ board' = board
          /\ turn' = turn
          /\ captured_pieces' = captured_pieces]_vars

\* A call in which candidates were played on copies, some kept, some dropped
C2_Witness ==
    /\ last.op = "list_legal_moves"
    /\ last.raised = ""
    /\ last.moves # <<>>
    /\ Len(last.moves) < Len(list_legal_moves(self, last.pos1, TRUE).moves)

\* C9: for an occupied square A and an empty square B, move_piece(A, B) and
\* then move_piece(B, A) both succeed and give back the board as it was.
C9_MoveRoundTrip ==
    [][(/\ last'.op = "move_piece"
        /\ is_valid_position(last'.pos1)
        /\ is_valid_position(last'.pos2)
        /\ last'.pos1 # last'.pos2
        /\ board[last'.pos1] # None
        /\ board[last'.pos2] = None) =>
          /\ last'.raised = ""
          /\ LET back == move_piece(board', last'.pos2, last'.pos1)
             IN  /\ back.raised = ""
                 /\ back.board = board
                 /\ back.board[last'.pos1] = board[last'.pos1]
                 /\ back.board[last'.pos2] = None]_vars

\* The king placed on e1 has been moved to d1 and is back on e1
C9_Witness ==
    /\ last.op = "move_piece"
    /\ last.raised = ""
    /\ last.pos1 = d1
    /\ last.pos2 = e1
    /\ board[e1] = Piece(W, "K")
    /\ board[d1] = None

\* The board after the piece on pos goes to d, taking what stands there
AfterMove(b, pos, d) == [b EXCEPT ![pos] = None, ![d] = b[pos]]

\* The king of `color` stands on a square some opposing piece can move to
KingAttacked(b, color) ==
    \E pos \in Squares :
        /\ b[pos] # None
        /\ b[pos].color # color
        /\ \E d \in Range(piece_moves(b, pos)) : b[d] = Piece(color, "K")

\* C1: for a square holding a piece of the side to move, list_legal_moves
\* returns exactly the pseudo-legal destinations after which (the piece moved,
\* any occupant captured) the mover's king is not attacked.
C1_ExactlySafeDestinations ==
    (/\ last.op = "list_legal_moves"
     /\ is_valid_position(last.pos1)
     /\ board[last.pos1] # None
     /\ board[last.pos1].color = turn) =>
        /\ last.raised = ""
        /\ Range(last.moves) =
             {d \in Range(list_legal_moves(self, last.pos1, TRUE).moves) :
                 ~KingAttacked(AfterMove(board, last.pos1, d), turn)}

\* C3: move_piece between two distinct valid squares with the first occupied
\* succeeds whether or not the second is occupied, returns the occupant of
\* the second, and changes these two squares only.
C3_MoveCaptures ==
    [][(/\ last'.op = "move_piece"
        /\ is_valid_position(last'.pos1)
        /\ is_valid_position(last'.pos2)
        /\ last'.pos1 # last'.pos2
        /\ board[last'.pos1] # None) =>
          /\ last'.raised = ""
          /\ last'.ret = board[last'.pos2]
          /\ board' = [board EXCEPT ![last'.pos1] = None,
                                    ![last'.pos2] = board[last'.pos1]]]_vars

ColorKey(color) == IF color = W THEN "W" ELSE "B"

\* C4: play_move onto an occupied square appends the captured piece to the
\* ledger of the capturing side and then passes the turn; onto an empty
\* square it leaves both ledgers as they were.
C4_CaptureLedger ==
    [][(/\ last'.op = "play_move"
        /\ is_valid_position(last'.pos1)
        /\ is_valid_position(last'.pos2)
        /\ last'.pos1 # last'.pos2
        /\ board[last'.pos1] # None) =>
          IF board[last'.pos2] # None
          THEN /\ captured_pieces' =
                    [captured_pieces EXCEPT
                       ![ColorKey(board[last'.pos1].color)] =
                           Append(@, board[last'.pos2].ptype)]
               /\ turn' = 1 - turn
          ELSE captured_pieces' = captured_pieces]_vars

\* C11: move_piece fails with the same-square error whenever from = to (also
\* on an occupied square) and with the empty-source error whenever from holds
\* no piece; in neither case is a piece moved.
C11_RejectsMalformedPairs ==
    [][(/\ last'.op = "move_piece"
        /\ is_valid_position(last'.pos1)
        /\ is_valid_position(last'.pos2)) =>
          /\ last'.pos1 = last'.pos2 =>
                /\ last'.raised = "Can't move to same square"
                /\ board' = board
          /\ (last'.pos1 # last'.pos2 /\ board[last'.pos1] = None) =>
                /\ last'.raised = "Invalid move"
                /\ board' = board]_vars

\* ------------------------------------------------------------ move generation
\* A caller that places pieces and then asks for moves in both modes.
d3 == <<5, 3>>
e3 == <<5, 4>>
f3 == <<5, 5>>
d4 == <<4, 3>>
f4 == <<4, 5>>
d6 == <<2, 3>>
f6 == <<2, 5>>
h5 == <<3, 7>>

MovePlacements ==
    { <<Piece(W, "R"), d4>>, <<Piece(W, "Q"), d4>>, <<Piece(B, "B"), f6>>,
      <<Piece(B, "P"), d6>>, <<Piece(W, "P"), f4>>, <<Piece(W, "P"), e2>>,
      <<Piece(B, "P"), e3>>, <<Piece(B, "N"), f3>>, <<Piece(W, "K"), e1>>,
      <<Piece(B, "P"), d2>>, <<Piece(B, "P"), d7>> }

MoveQueries == {pl[2] : pl \in MovePlacements} \cup {h5, OffBoard}

\* The positions asked about without simulated=True
FilteredQueries == {e1, e2, f3, h5, OffBoard}

\* game.list_legal_moves(pos, simulated=True)
ListSimulatedMoves(pos) ==
    /\ LET r == list_legal_moves(self, pos, TRUE)
       IN  /\ SetSelf(r.self)
           /\ last' = Call("list_legal_moves(simulated)", pos, NoPos, None,
                           r.raised, r.moves, FALSE, None)
    /\ UNCHANGED n
    /\ UNCHANGED stack

\* game.next_turn()
NextTurn ==
    /\ SetSelf(next_turn(self))
    /\ last' = Call("next_turn", NoPos, NoPos, None, "", <<>>, FALSE, None)
    /\ UNCHANGED n
    /\ UNCHANGED stack

NextMoves ==
    \/ \E pl \in MovePlacements : AddPiece(pl[1], pl[2])
    \/ NextTurn
    \/ \E pos \in FilteredQueries : ListLegalMoves(pos)
    \/ \E pos \in MoveQueries : ListSimulatedMoves(pos)

SpecMoves == Init /\ [][NextMoves]_vars

\* The square s steps from pos along direction
RaySquare(pos, direction, s) ==
    <<pos[1] + s * direction[1], pos[2] + s * direction[2]>>

\* The squares of one direction as the claim words them: every empty square
\* up to the first occupied one, and that one if it holds an opposing piece
ExpectedRay(b, pos, direction) ==
    { RaySquare(pos, direction, s) : s \in
        { s \in 1 .. BoardSize - 1 :
            /\ is_valid_position(RaySquare(pos, direction, s))
            /\ \A t \in 1 .. s - 1 : b[RaySquare(pos, direction, t)] = None
            /\ \/ b[RaySquare(pos, direction, s)] = None
               \/ b[RaySquare(pos, direction, s)].color # b[pos].color } }

Diagonals == { <<-1, -1>>, <<-1, 1>>, <<1, -1>>, <<1, 1>> }
Orthogonals == { <<-1, 0>>, <<0, -1>>, <<0, 1>>, <<1, 0>> }

SliderDirections(ptype) ==
    CASE ptype = "B" -> Diagonals
      [] ptype = "R" -> Orthogonals
      [] ptype = "Q" -> Diagonals \cup Orthogonals

\* C13: for a bishop, rook or queen each direction contributes the empty
\* squares up to the first occupied square, that square only if it holds an
\* opposing piece, and nothing beyond it.
C13_SlidingRays ==
    (/\ last.op = "list_legal_moves(simulated)"
     /\ is_valid_position(last.pos1)
     /\ board[last.pos1].ptype \in {"B", "R", "Q"}) =>
        /\ last.raised = ""
        /\ \A direction \in SliderDirections(board[last.pos1].ptype) :
              Range(long_moves(board, last.pos1, direction)) =
                  ExpectedRay(board, last.pos1, direction)
        /\ Range(last.moves) =
              UNION { ExpectedRay(board, last.pos1, direction) :
                        direction \in SliderDirections(board[last.pos1].ptype) }

\* The queen on d4 with a Black pawn two squares up the file and a White
\* pawn two squares along the rank
C13_Witness ==
    /\ last.op = "list_legal_moves(simulated)"
    /\ last.pos1 = d4
    /\ board[d4] = Piece(W, "Q")
    /\ board[d6] = Piece(B, "P")
    /\ board[f4] = Piece(W, "P")
    /\ {<<3, 3>>, d6, <<4, 4>>} \subseteq Range(last.moves)
    /\ <<1, 3>> \notin Range(last.moves)
    /\ f4 \notin Range(last.moves)
    /\ <<0, 7>> \in Range(last.moves)

\* The pawn's destinations as the claim words them
ExpectedPawn(b, pos) ==
    LET forward == IF b[pos].color = W THEN -1 ELSE 1
        start == IF b[pos].color = W THEN 6 ELSE 1
        one == <<pos[1] + forward, pos[2]>>
        two == <<pos[1] + 2 * forward, pos[2]>>
        diagonals == { <<pos[1] + forward, pos[2] - 1>>,
                       <<pos[1] + forward, pos[2] + 1>> }
        Free(sq) == is_valid_position(sq) /\ b[sq] = None
    IN  {sq \in {one} : Free(one)}
        \cup {sq \in {two} : pos[1] = start /\ Free(one) /\ Free(two)}
        \cup {sq \in diagonals :
                /\ is_valid_position(sq)
                /\ b[sq] # None
                /\ b[sq].color # b[pos].color}

\* C14: a pawn's moves are the forward square if empty, the second forward
\* square from the starting rank if both are empty, and each forward diagonal
\* that holds an opposing piece; nothing else.
C14_PawnMoves ==
    (/\ last.op = "list_legal_moves(simulated)"
     /\ is_valid_position(last.pos1)
     /\ board[last.pos1].ptype = "P") =>
        /\ last.raised = ""
        /\ Range(last.moves) = ExpectedPawn(board, last.pos1)

\* The White pawn on e2, a Black pawn on e3 in its way, e4 empty and a
\* Black knight on f3 to take
C14_Witness ==
    /\ last.op = "list_legal_moves(simulated)"
    /\ last.pos1 = e2
    /\ board[e2] = Piece(W, "P")
    /\ board[e3] = Piece(B, "P")
    /\ board[e4] = None
    /\ board[f3] = Piece(B, "N")
    /\ Range(last.moves) = {f3}

KnightJumps ==
    { <<i, j>> \in (-2 .. 2) \X (-2 .. 2) :
        {i * i, j * j} = {1, 4} }

KingSteps ==
    { <<i, j>> \in (-1 .. 1) \X (-1 .. 1) : <<i, j>> # <<0, 0>> }

\* The destinations at the given offsets as the claim words them
ExpectedOffsets(b, pos, offsets) ==
    { sq \in { <<pos[1] + o[1], pos[2] + o[2]>> : o \in offsets } :
        /\ is_valid_position(sq)
        /\ ~(b[sq] # None /\ b[sq].color = b[pos].color) }

\* C15: a knight's destinations are the squares at its 8 jumps and a king's
\* the 8 neighbouring squares, kept iff on the board and not held by a piece
\* of the mover's colour; the piece's own square is never one of them.
C15_KnightKingMoves ==
    (/\ last.op = "list_legal_moves(simulated)"
     /\ is_valid_position(last.pos1)
     /\ board[last.pos1].ptype \in {"N", "K"}) =>
        /\ last.raised = ""
        /\ Cardinality(KnightJumps) = 8
        /\ Cardinality(KingSteps) = 8
        /\ Range(last.moves) =
              ExpectedOffsets(board, last.pos1,
                              IF board[last.pos1].ptype = "N"
                              THEN KnightJumps ELSE KingSteps)
        /\ last.pos1 \notin Range(last.moves)

\* The king on e1 beside its own pawn on e2 and a Black pawn on d2
C15_Witness ==
    /\ last.op = "list_legal_moves(simulated)"
    /\ last.pos1 = e1
    /\ board[e1] = Piece(W, "K")
    /\ board[e2] = Piece(W, "P")
    /\ board[d2] = Piece(B, "P")
    /\ Range(last.moves) = {d1, <<7, 5>>, d2, <<6, 5>>}

\* C16: for a valid pos the move query returns the empty list when pos is
\* empty (either mode) and, without simulated, when pos holds a piece of the
\* side not to move; with simulated the moves of such a piece are returned
\* whoever is to move.
C16_TurnOwnership ==
    (/\ last.op \in {"list_legal_moves", "list_legal_moves(simulated)"}
     /\ is_valid_position(last.pos1)) =>
        /\ board[last.pos1] = None =>
              last.raised = "" /\ last.moves = <<>>
        /\ (/\ last.op = "list_legal_moves"
            /\ board[last.pos1] # None
            /\ board[last.pos1].color # turn) =>
              last.raised = "" /\ last.moves = <<>>
        /\ (/\ last.op = "list_legal_moves(simulated)"
            /\ board[last.pos1] # None) =>
              /\ last.raised = ""
              /\ last.moves = piece_moves(board, last.pos1)
              /\ last.moves =
                    list_legal_moves(next_turn(self), last.pos1, TRUE).moves

\* With simulated, the Black knight's moves are listed on White's turn
C16_Witness ==
    /\ last.op = "list_legal_moves(simulated)"
    /\ last.pos1 = f3
    /\ board[f3] = Piece(B, "N")
    /\ turn = 0
    /\ last.moves # <<>>

\* Without simulated, the same knight has no moves on White's turn
C16_WitnessFiltered ==
    /\ last.op = "list_legal_moves"
    /\ last.pos1 = f3
    /\ board[f3] = Piece(B, "N")
    /\ turn = 0
    /\ last.moves = <<>>

\* C17: whenever play_move fails, the game is exactly as before the call: no
\* square changes, the turn is not flipped, the ledgers are unchanged.
C17_FailedPlayMoveChangesNothing ==
    [][(last'.op = "play_move" /\ last'.raised # "") =>
          /\ board' = board
          /\ turn' = turn
          /\ captured_pieces' = captured_pieces]_vars

\* A play_move onto an occupied square has been rejected
C17_Witness ==
    /\ last.op = "play_move"
    /\ last.raised = "Invalid move"
    /\ last.pos1 = e1
    /\ last.pos2 = e8
    /\ board[e1] = Piece(W, "K")
    /\ board[e8] = Piece(B, "Q")
    /\ turn = 0

\* ------------------------------------------------------------------ the game
\* The console's use of the game (tui.py): construct, restart, then moves
\* and queries.
InitGame ==
    /\ board = restart(NewGame).board
    /\ turn = restart(NewGame).turn
    /\ captured_pieces = restart(NewGame).captured_pieces
    /\ last = Call("restart", NoPos, NoPos, None, "", <<>>, FALSE, None)
    /\ n = 0
    /\ stack = <<>>

NextGame ==
    \/ Restart
    \/ \E mv \in MovePairs : PlayMove(mv[1], mv[2])
    \/ \E pos \in Queries : ListLegalMoves(pos)
    \/ IsInCheck

SpecGame == InitGame /\ [][NextGame]_vars

OnBoard(b) == Cardinality({pos \in Squares : b[pos] # None})

LedgerEntries(cap) == Len(cap["W"]) + Len(cap["B"])

MaxLegalPly == 4

f7 == <<1, 5>>
g7 == <<1, 6>>
g6 == <<2, 6>>
g5 == <<3, 6>>

LegalFrom == {e2, d1, f7, g7, e8, h5}

\* game.play_move(pos1, pos2) with pos2 taken from game.list_legal_moves(pos1)
PlayLegalMove(pos1) ==
    /\ n < MaxLegalPly
    /\ LET legal == list_legal_moves(self, pos1, FALSE)
       IN  /\ legal.raised = ""
           /\ \E pos2 \in Range(legal.moves) :
                  LET r == play_move(self, pos1, pos2)
                  IN  /\ SetSelf(r.self)
                      /\ last' = Call("play_move", pos1, pos2, None,
                                      r.raised, <<>>, FALSE, None)
                      /\ n' = IF r.raised = "" THEN n + 1 ELSE n
    /\ UNCHANGED stack

NextLegal ==
    \/ \E pos1 \in LegalFrom : PlayLegalMove(pos1)
    \/ \E pos \in LegalFrom : ListLegalMoves(pos)
    \/ IsInCheck

SpecLegal == InitGame /\ [][NextLegal]_vars

HasKing(b, color) == \E pos \in Squares : b[pos] = Piece(color, "K")

\* C19: when every move played after restart is one list_legal_moves returned
\* for its source square, the king of the side that has just moved is not
\* attacked by the side now to move, both kings are on the board and no
\* king is in a capture ledger.
C19_LegalPlayKeepsKingSafe ==
    /\ ~KingAttacked(board, 1 - turn)
    /\ HasKing(board, W)
    /\ HasKing(board, B)
    /\ \A key \in {"W", "B"} :
           \A k \in 1 .. Len(captured_pieces[key]) :
               captured_pieces[key][k].ptype # "K"

\* 1. e4 f6 2. Qh5+ g6: the check was answered by the one legal pawn move,
\* the other g-pawn move would have left the king attacked
C19_Witness ==
    /\ n = 4
    /\ last.op = "play_move"
    /\ last.raised = ""
    /\ last.pos1 = g7
    /\ last.pos2 = g6
    /\ board[h5] = Piece(W, "Q")
    /\ board[g6] = Piece(B, "P")
    /\ KingAttacked(AfterMove(AfterMove(board, g6, g7), g7, g5), B)

\* ------------------------------------------------------------- the calls
\* list_legal_moves, _would_be_check and is_in_check one call at a time: a
\* frame is pushed when a method is entered and popped when it returns.
RecursionLimit == 6

Frame(fn, g, pos, simulated, todo, acc, flag, phase) ==
    [fn |-> fn, g |-> g, pos |-> pos, simulated |-> simulated, todo |-> todo,
     acc |-> acc, flag |-> flag, phase |-> phase]

RECURSIVE positions_in_order(_)
positions_in_order(S) ==
    IF S = {}
    THEN <<>>
    ELSE LET first == CHOOSE p \in S :
                          \A q \in S : p[1] * BoardSize + p[2]
                                           <= q[1] * BoardSize + q[2]
         IN  <<first>> \o positions_in_order(S \ {first})

\* A list_legal_moves that filters its result in simulated mode too.
list_legal_moves_frame_always_filters(g, pos, simulated) ==
    LET piece == get_piece(g.board, pos)
        result == IF piece = None \/ (~simulated /\ piece.color # g.turn)
                  THEN <<>>
                  ELSE piece_moves(g.board, pos)
    IN  Frame("list_legal_moves", g, pos, simulated, result, <<>>, FALSE, "")

\* list_legal_moves(pos, simulated) entered on a valid position: `result` is
\* built (todo), and in simulated mode returned as it is (acc)
list_legal_moves_frame(g, pos, simulated) ==
    LET piece == get_piece(g.board, pos)
        result == IF piece = None \/ (~simulated /\ piece.color # g.turn)
                  THEN <<>>
                  ELSE piece_moves(g.board, pos)
    IN  IF simulated
        THEN Frame("list_legal_moves", g, pos, TRUE, <<>>, result, FALSE, "")
        ELSE Frame("list_legal_moves", g, pos, FALSE, result, <<>>, FALSE, "")

\* is_in_check entered: the opposing pieces it will ask for their moves
is_in_check_frame(g) ==
    LET on_board == pieces_on_board(g.board)
    IN  Frame("is_in_check", g, NoPos, FALSE,
              positions_in_order({pos \in DOMAIN on_board :
                                      on_board[pos].color # g.turn}),
              <<>>, FALSE, "")

\* _would_be_check(pos1, pos2) entered: the copy is made
would_be_check_frame(g, pos1, pos2) ==
    Frame("_would_be_check", deepcopy(g), pos1, FALSE, <<pos2>>, <<>>, FALSE,
          "copied")

Top == stack[Len(stack)]

Caller == stack[Len(stack) - 1]

Running(fn) == stack # <<>> /\ Top.fn = fn

\* The outermost call ends, by return or by exception
Finish(raised, moves, flag) ==
    /\ stack' = <<>>
    /\ last' = Call(stack[1].fn, stack[1].pos, NoPos, None, raised, moves,
                    flag, None)

\* A method is entered from the running one; RecursionError past the limit
Enter(frame, caller) ==
    IF Len(stack) < RecursionLimit
    THEN /\ stack' = Append([stack EXCEPT ![Len(stack)] = caller], frame)
         /\ UNCHANGED last
    ELSE Finish("RecursionError", <<>>, FALSE)

\* game.list_legal_moves(pos) is called
EnterListLegalMoves(pos) ==
    /\ stack = <<>>
    /\ IF is_valid_position(pos)
       THEN /\ stack' = <<list_legal_moves_frame(self, pos, FALSE)>>
            /\ UNCHANGED last
       ELSE /\ stack' = <<>>
            /\ last' = Call("list_legal_moves", pos, NoPos, None,
                            "Game Error: invalid position", <<>>, FALSE, None)
    /\ UNCHANGED <<board, turn, captured_pieces, n>>

\* game.is_in_check is read
EnterIsInCheck ==
    /\ stack = <<>>
    /\ stack' = <<is_in_check_frame(self)>>
    /\ UNCHANGED <<board, turn, captured_pieces, last, n>>

\* line 191: the next candidate is handed to _would_be_check
FilterCandidate ==
    /\ Running("list_legal_moves")
    /\ Top.todo # <<>>
    /\ Enter(would_be_check_frame(Top.g, Top.pos, Head(Top.todo)), Top)
    /\ UNCHANGED <<board, turn, captured_pieces, n>>

\* _would_be_check: the move is played on the copy, the turn handed back,
\* and the copy asked whether it is in check
SimulateMove ==
    /\ Running("_would_be_check")
    /\ Top.phase = "copied"
    /\ LET played == play_move(Top.g, Top.pos, Head(Top.todo))
       IN  IF played.raised # ""
           THEN Finish(played.raised, <<>>, FALSE)
           ELSE Enter(is_in_check_frame(next_turn(played.self)),
                      [Top EXCEPT !.phase = "called"])
    /\ UNCHANGED <<board, turn, captured_pieces, n>>

\* is_in_check: the next opposing piece is asked for its moves
ScanPiece ==
    /\ Running("is_in_check")
    /\ ~Top.flag
    /\ Top.todo # <<>>
    /\ Enter(list_legal_moves_frame(Top.g, Head(Top.todo), TRUE), Top)
    /\ UNCHANGED <<board, turn, captured_pieces, n>>

AttacksKing(b, moves) ==
    \E k \in 1 .. Len(moves) :
        LET target == get_piece(b, moves[k])
        IN  target # None /\ target.ptype = "K"

Returning ==
    /\ stack # <<>>
    /\ CASE Top.fn = "list_legal_moves" -> Top.todo = <<>>
         [] Top.fn = "is_in_check" -> Top.flag \/ Top.todo = <<>>
         [] Top.fn = "_would_be_check" -> Top.phase = "done"

\* The caller's frame once the running method has returned to it
Resumed ==
    CASE Caller.fn = "is_in_check" ->
             IF AttacksKing(Caller.g.board, Top.acc)
             THEN [Caller EXCEPT !.flag = TRUE]
             ELSE [Caller EXCEPT !.todo = Tail(Caller.todo)]
      [] Caller.fn = "_would_be_check" ->
             [Caller EXCEPT !.flag = Top.flag, !.phase = "done"]
      [] Caller.fn = "list_legal_moves" ->
             [Caller EXCEPT !.todo = Tail(Caller.todo),
                            !.acc = IF Top.flag THEN Caller.acc
                                    ELSE Append(Caller.acc,
                                                Head(Caller.todo))]

\* The running method returns
Return ==
    /\ Returning
    /\ IF Len(stack) = 1
       THEN Finish("", Top.acc, Top.flag)
       ELSE /\ stack' = [k \in 1 .. Len(stack) - 1 |->
                             IF k = Len(stack) - 1 THEN Resumed ELSE stack[k]]
            /\ UNCHANGED last
    /\ UNCHANGED <<board, turn, captured_pieces, n>>


\* The pieces callers place and the squares they query
CallPlacements ==
    { <<Piece(W, "K"), e1>>, <<Piece(B, "Q"), e8>>, <<Piece(B, "P"), d2>> }

CallQueries == {e1, OffBoard}

Step == FilterCandidate \/ SimulateMove \/ ScanPiece \/ Return

\* One call at a time: pieces are placed between calls, never during one.
NextCalls ==
    \/ stack = <<>> /\ \E pl \in CallPlacements : AddPiece(pl[1], pl[2])
    \/ \E pos \in CallQueries : EnterListLegalMoves(pos)
    \/ EnterIsInCheck
    \/ FilterCandidate
    \/ SimulateMove
    \/ ScanPiece
    \/ Return

\* A call that has been entered runs on until it returns or raises
SpecCalls == Init /\ [][NextCalls]_vars /\ WF_vars(Step)

Frames(fn) == {k \in 1 .. Len(stack) : stack[k].fn = fn}

\* is_in_check enters list_legal_moves only in simulated mode, a simulated
\* list_legal_moves has nothing left to filter, and so the calls nest no
\* deeper than list_legal_moves, _would_be_check, is_in_check,
\* list_legal_moves with one copy of the game among them
BoundedNesting ==
    /\ \A k \in 2 .. Len(stack) :
           (stack[k].fn = "list_legal_moves" /\ stack[k - 1].fn = "is_in_check")
               => stack[k].simulated
    /\ \A k \in Frames("list_legal_moves") :
           stack[k].simulated => stack[k].todo = <<>>
    /\ Len(stack) <= 4
    /\ Cardinality(Frames("_would_be_check")) <= 1

\* C12: check detection and legality filtering do not recurse into each other
\* without bound: is_in_check asks for moves in simulated mode only, which
\* never enters the filter, at most one copy of the game is being simulated
\* at any time, and every list_legal_moves and is_in_check that is entered
\* comes to an end.
C12_BoundedRecursion ==
    /\ []BoundedNesting
    /\ (stack # <<>>) ~> (stack = <<>>)

\* The filter of the king's moves is asking the copy's is_in_check, which is
\* asking the queen for its moves in simulated mode
C12_Witness ==
    /\ Len(stack) = 4
    /\ stack[1].fn = "list_legal_moves"
    /\ ~stack[1].simulated
    /\ stack[1].pos = e1
    /\ stack[2].fn = "_would_be_check"
    /\ stack[3].fn = "is_in_check"
    /\ stack[4].fn = "list_legal_moves"
    /\ stack[4].simulated
    /\ stack[4].pos = e8
    /\ stack[1].acc # <<>>

====
